---- MODULE Spec2Model ----
(***************************************************************************)
(* A model of plaidml/keras/__init__.py: the import hook that replaces the *)
(* keras.backend module by a synthetic module populated from a selected    *)
(* backend implementation.                                                 *)
(*                                                                         *)
(* The program is Python 2 (dict.iteritems, the find_module/load_module    *)
(* finder protocol).  The host's import of one dotted name is modelled as  *)
(* Python 2 performs it: a hit in sys.modules returns at once; otherwise   *)
(* the finders of sys.meta_path are asked in order, find_module(fullname,  *)
(* path) with path the parent package's __path__ (None for a top-level     *)
(* name); the first finder that returns a loader has load_module called;   *)
(* when none claims the name the normal on-disk resolution runs.           *)
(*                                                                         *)
(* Dotted names are sequences of segments (<<"keras", "backend">>), file   *)
(* system locations are sequences of segments too, and os.path.join of a   *)
(* location and a segment appends the segment.                             *)
(*                                                                         *)
(* load_module is split at its calls of importlib.import_module (line 111):*)
(* that call runs the code of another module, which may import the target  *)
(* path again while load_module is still on the stack.                     *)
(***************************************************************************)
EXTENDS Integers, Sequences, FiniteSets, TLC

VARIABLES
    environ,        \* os.environ, restricted to the two variables read
    loaded,         \* plaidml.keras has been imported (its def statements ran)
    defaults,       \* install_backend's default argument values (lines 61-62)
    envAtLoad,      \* history: os.environ as it was when loaded became TRUE
    meta_path,      \* sys.meta_path: the finders appended by install_backend
    loads,          \* history: per finder, the number of load_module calls
    sys_modules,    \* sys.modules: module path -> identity of a module object
    modules,        \* the module objects created so far, by identity
    convert_kernel, \* keras.utils.conv_utils.convert_kernel: "original" | "identity"
    inst,           \* the running install_backend call, if any
    imp,            \* the running import of one module path, if any
    returned,       \* history: <<path, module>> of every import of a target that returned
    last            \* history: the last install_backend call and its outcome

vars == <<environ, loaded, defaults, envAtLoad, meta_path, loads, sys_modules,
          modules, convert_kernel, inst, imp, returned, last>>

(***************************************************************************)
(* Bounds and input sets                                                   *)
(***************************************************************************)

\* At most this many finders are appended to sys.meta_path.
MaxInstalls == 2

BackendVar == "PLAIDML_KERAS_BACKEND"
TraceVar == "PLAIDML_TRACE_FILENAME"

\* Values the environment may give the two variables.
BackendEnvValues == {"theano"}
TraceEnvValues == {"trace.log"}

\* Python values.  Every value is a record, so that any two compare.
PyNone == [kind |-> "None"]
StrVal(s) == [kind |-> "str", val |-> s]
ListVal(l) == [kind |-> "list", elts |-> l]
FileVal == [kind |-> "file"]
ObjVal(owner, n) == [kind |-> "obj", owner |-> owner, name |-> n]
\* lambda: self._backend_name, closed over the finder self (line 107)
BackendLambda(self) == [kind |-> "lambda", self |-> self]

\* The markers of an argument left to its default.
Default == "<default>"
DefaultVal == [kind |-> "default"]

\* The module paths of this program and of the host.
KerasBackend == <<"keras", "backend">>
KerasBackendCommon == <<"keras", "backend", "common">>
ThisPackage == <<"plaidml", "keras">>

\* import_path arguments: the documented default, and a top-level (dot-free)
\* name, which is a prefix of the default.
Targets == {KerasBackend, <<"keras">>}
\* Paths the program imports: the targets and a sub-path (an extension) of
\* both.
RequestPaths == Targets \cup {KerasBackendCommon}
BackendArgs == {Default, "plaidml", "theano", "tensorflow"}
TraceArgs == {DefaultVal, FileVal}

\* The parent package's __path__ as the host passes it to find_module.
SiteKeras == <<"site-packages", "keras">>
UserKeras == <<"home", "keras">>
ParentPaths == {<<UserKeras, SiteKeras>>}

\* Attribute names.  Every module binds __name__; every backend implementation
\* binds its function factory, function, and may bind __path__ and backend;
\* keras.backend.common binds epsilon and may bind function and backend.
ImplOptNames == {"__path__", "backend"}
CommonOptNames == {"function", "backend"}

\* Arguments convert_kernel is called with: kernels as sequences.
Kernels == {<<1, 2>>, <<3, 4, 5>>, <<7>>}

(***************************************************************************)
(* The backend registry and the pure helpers                               *)
(***************************************************************************)

\* _BACKENDS (lines 54-57).  '.backend' is relative: the leading "." segment.
_BACKENDS == [plaidml |-> <<".", "backend">>,
              theano |-> <<"keras", "backend", "theano_backend">>]

\* os.getenv(key, default) in the environment env
getenv_in(env, key, default) ==
    IF key \in DOMAIN env THEN StrVal(env[key]) ELSE default

\* os.getenv(key, default)
getenv(key, default) == getenv_in(environ, key, default)

\* importlib.import_module(name, package): the absolute path of name.
ResolveName(name, package) ==
    IF Head(name) = "." THEN package \o Tail(name) ELSE name

\* The paths _add_imports may import.
ImplPaths == {ResolveName(_BACKENDS[b], ThisPackage) : b \in DOMAIN _BACKENDS}
                 \cup {KerasBackendCommon}

\* fullname.rsplit('.', 1)[-1]
Tail_rsplit(fullname) == fullname[Len(fullname)]

\* os.path.join(elt, tail)
path_join(elt, tail) == Append(elt, tail)

\* The namespace of a module found on disk at path p that binds the names S.
DiskNamespace(p, S) ==
    [n \in {"__name__"} \cup S |->
        CASE n = "__name__" -> StrVal(p)
          [] n = "__path__" -> ListVal(<<<<"site-packages">> \o p>>)
          [] OTHER -> ObjVal(p, n)]

\* The names a module on disk at p may bind.
DiskNameSets(p) ==
    IF p = KerasBackendCommon THEN {{"epsilon"} \cup S : S \in SUBSET CommonOptNames}
    ELSE IF p \in ImplPaths THEN {{"function"} \cup S : S \in SUBSET ImplOptNames}
    ELSE {{"function"}}

\* Mutant: a name the module binds already is left as it is (setdefault).
CopyAttrs_onlyNew(ns, impl) ==
    [n \in DOMAIN ns \cup DOMAIN impl |-> IF n \in DOMAIN ns THEN ns[n] ELSE impl[n]]

\* Mutant: the module's namespace is replaced by the implementation's
\* instead of being updated from it.
CopyAttrs_replace(ns, impl) == impl

\* setattr(mod, k, v) for every (k, v) of impl.__dict__ (lines 112-113)
CopyAttrs(ns, impl) ==
    [n \in DOMAIN ns \cup DOMAIN impl |-> IF n \in DOMAIN impl THEN impl[n] ELSE ns[n]]

\* setattr(mod, k, v)
SetAttr(ns, k, v) ==
    [n \in DOMAIN ns \cup {k} |-> IF n = k THEN v ELSE ns[n]]

\* d[k] = v on a dict
DictSet(d, k, v) ==
    [x \in DOMAIN d \cup {k} |-> IF x = k THEN v ELSE d[x]]

\* The convert_kernel Keras ships: it flips the kernel.
RECURSIVE Reverse(_)
Reverse(s) == IF s = <<>> THEN <<>> ELSE Append(Reverse(Tail(s)), Head(s))

\* conv_utils.convert_kernel(x) as currently bound
CallConvertKernel(x) ==
    IF convert_kernel = "identity" THEN x ELSE Reverse(x)

\* Calling a value with no arguments: the lambda of line 107 reads
\* self._backend_name when it is called.
Call0(v) ==
    IF v.kind = "lambda" THEN StrVal(meta_path[v.self].backend_name) ELSE PyNone

(***************************************************************************)
(* _PlaidMLBackendFinder                                                   *)
(***************************************************************************)

\* Mutant: an unknown backend name falls back to the default implementation
\* instead of raising.
Finder_init_noCheck(repname, backend_name, trace_file) ==
    [raised |-> "",
     self |-> [repname |-> repname,
               backend_name |-> backend_name,
               backend_modname |-> IF backend_name \in DOMAIN _BACKENDS
                                   THEN _BACKENDS[backend_name]
                                   ELSE _BACKENDS["plaidml"],
               trace_file |-> trace_file,
               keras_path |-> PyNone]]

\* __init__ (lines 80-88): the new finder, or the RuntimeError of line 86.
Finder_init(repname, backend_name, trace_file) ==
    IF backend_name \in DOMAIN _BACKENDS
    THEN [raised |-> "",
          self |-> [repname |-> repname,
                    backend_name |-> backend_name,
                    backend_modname |-> _BACKENDS[backend_name],
                    trace_file |-> trace_file,
                    keras_path |-> PyNone]]
    ELSE [raised |-> "RuntimeError"]

\* Mutant: the name is matched by prefix (fullname.startswith(repname)).
find_module_prefix(self, fullname, path) ==
    IF ~(Len(fullname) >= Len(self.repname)
         /\ SubSeq(fullname, 1, Len(self.repname)) = self.repname)
    THEN [raised |-> "", ret |-> "None", self |-> self]
    ELSE IF path.kind # "list"
    THEN [raised |-> "TypeError", ret |-> "None", self |-> self]
    ELSE [raised |-> "", ret |-> "self",
          self |-> [self EXCEPT !.keras_path =
                      ListVal([k \in 1..Len(path.elts) |->
                                 path_join(path.elts[k], Tail_rsplit(fullname))])]]

\* find_module (lines 90-95): what it raises, what it returns ("None" or
\* "self") and the finder afterwards.  Iterating path = None is a TypeError.
find_module(self, fullname, path) ==
    IF fullname # self.repname
    THEN [raised |-> "", ret |-> "None", self |-> self]
    ELSE IF path.kind # "list"
    THEN [raised |-> "TypeError", ret |-> "None", self |-> self]
    ELSE [raised |-> "", ret |-> "self",
          self |-> [self EXCEPT !.keras_path =
                      ListVal([k \in 1..Len(path.elts) |->
                                 path_join(path.elts[k], Tail_rsplit(fullname))])]]

\* The identity of the module object the host loads from disk for path p,
\* and of the n-th module object made by the load_module of finder i.
DiskId(p) == <<"<disk>">> \o p
SyntheticId(i, n) == <<"<synthetic>", ToString(i), ToString(n)>>

\* A module object: its namespace, the finder whose load_module made it (0
\* for a module the host loaded from disk) and whether its loader returned.
NewModule(self, repname, keras_path) ==
    [ns |-> [n \in {"__name__", "__path__"} |->
                IF n = "__name__" THEN StrVal(repname) ELSE keras_path],
     loader |-> self,
     done |-> FALSE]

DiskModule(p, S) == [ns |-> DiskNamespace(p, S), loader |-> 0, done |-> TRUE]

(***************************************************************************)
(* The state after interpreter start, before plaidml.keras is imported     *)
(***************************************************************************)

Idle == [pc |-> "idle", fullname |-> <<>>, path |-> PyNone, i |-> 0, mod |-> <<>>,
         caller |-> "none"]
NoInstall == [pc |-> "idle", stage |-> 0]
NoCall == [arg |-> "", outcome |-> "none", at |-> ""]

Environments ==
    UNION {[S -> BackendEnvValues \cup TraceEnvValues] : S \in SUBSET {BackendVar, TraceVar}}

EnvOK(e) ==
    /\ BackendVar \in DOMAIN e => e[BackendVar] \in BackendEnvValues
    /\ TraceVar \in DOMAIN e => e[TraceVar] \in TraceEnvValues

Init ==
    /\ environ \in {e \in Environments : EnvOK(e)}
    /\ loaded = FALSE
    /\ defaults = [backend |-> "", trace_file |-> PyNone]
    /\ envAtLoad = << >>
    /\ meta_path = << >>
    /\ loads = << >>
    /\ sys_modules = << >>
    /\ modules = << >>
    /\ convert_kernel = "original"
    /\ inst = NoInstall
    /\ imp = Idle
    /\ returned = {}
    /\ last = NoCall

(***************************************************************************)
(* The host: the end of an import, and its start                           *)
(***************************************************************************)

\* The import of fullname returns module m to its caller.
ImportReturns(fullname, m, caller) ==
    /\ returned' = IF fullname \in Targets THEN returned \cup {<<fullname, m>>}
                                            ELSE returned
    /\ imp' = Idle
    /\ inst' = IF caller = "install" THEN [inst EXCEPT !.stage = @ + 1] ELSE inst
    /\ last' = last

\* The import of fullname raises err in the function at; inside
\* install_backend the exception leaves install_backend too (nothing there
\* catches it).
ImportRaises(fullname, err, at, caller) ==
    /\ returned' = returned
    /\ imp' = Idle
    /\ inst' = IF caller = "install" THEN NoInstall ELSE inst
    /\ last' = IF caller = "install" THEN [last EXCEPT !.outcome = err, !.at = at]
                                     ELSE last

\* The host begins to import fullname: sys.modules is looked up first.
BeginImport(fullname, path, caller) ==
    IF fullname \in DOMAIN sys_modules
    THEN ImportReturns(fullname, sys_modules[fullname], caller)
    ELSE /\ imp' = [pc |-> "find", fullname |-> fullname, path |-> path, i |-> 1,
                    mod |-> <<>>, caller |-> caller]
         /\ UNCHANGED <<returned, last, inst>>

\* The path argument the host passes for fullname.
PathArgs(fullname) ==
    IF Len(fullname) = 1 THEN {PyNone} ELSE {ListVal(pp) : pp \in ParentPaths}

(***************************************************************************)
(* Operations                                                              *)
(***************************************************************************)

\* import plaidml.keras: the def of line 60 evaluates its default arguments.
LoadPlaidmlKeras ==
    /\ ~loaded
    /\ imp.pc = "idle"
    /\ loaded' = TRUE
    /\ defaults' = [backend |-> getenv(BackendVar, StrVal("plaidml")).val,
                    trace_file |-> getenv(TraceVar, PyNone)]
    /\ envAtLoad' = environ
    /\ UNCHANGED <<environ, meta_path, loads, sys_modules, modules, convert_kernel,
                   inst, imp, returned, last>>

\* os.environ[k] = v, by the program between two operations.
SetEnv(k, v) ==
    /\ imp.pc = "idle"
    /\ inst.pc = "idle"
    /\ environ' = DictSet(environ, k, v)
    /\ environ' # environ
    /\ UNCHANGED <<loaded, defaults, envAtLoad, meta_path, loads, sys_modules,
                   modules, convert_kernel, inst, imp, returned, last>>

\* Mutant: the new finder is put at the front of sys.meta_path.
install_backend_insertFront(import_path, backend_arg, trace_arg) ==
    /\ loaded
    /\ imp.pc = "idle"
    /\ inst.pc = "idle"
    /\ Len(meta_path) < MaxInstalls
    /\ LET backend == IF backend_arg = Default THEN defaults.backend ELSE backend_arg
           trace == IF trace_arg = DefaultVal THEN defaults.trace_file ELSE trace_arg
           f == Finder_init(import_path, backend, trace)
           call == [arg |-> backend_arg, outcome |-> "running", at |-> ""]
       IN  IF f.raised # ""
           THEN /\ last' = [call EXCEPT !.outcome = f.raised, !.at = "__init__"]
                /\ UNCHANGED <<meta_path, loads, inst>>
           ELSE /\ meta_path' = <<f.self>> \o meta_path
                /\ loads' = <<0>> \o loads
                /\ inst' = [pc |-> "conv_utils", stage |-> 0]
                /\ last' = call
    /\ UNCHANGED <<environ, loaded, defaults, envAtLoad, sys_modules, modules,
                   convert_kernel, imp, returned>>

\* Mutant: the defaults are read from the environment at the call.
install_backend_readsEnvAtCall(import_path, backend_arg, trace_arg) ==
    /\ loaded
    /\ imp.pc = "idle"
    /\ inst.pc = "idle"
    /\ Len(meta_path) < MaxInstalls
    /\ LET backend == IF backend_arg = Default
                      THEN getenv(BackendVar, StrVal("plaidml")).val ELSE backend_arg
           trace == IF trace_arg = DefaultVal THEN getenv(TraceVar, PyNone) ELSE trace_arg
           f == Finder_init(import_path, backend, trace)
           call == [arg |-> backend_arg, outcome |-> "running", at |-> ""]
       IN  IF f.raised # ""
           THEN /\ last' = [call EXCEPT !.outcome = f.raised, !.at = "__init__"]
                /\ UNCHANGED <<meta_path, loads, inst>>
           ELSE /\ meta_path' = Append(meta_path, f.self)
                /\ loads' = Append(loads, 0)
                /\ inst' = [pc |-> "conv_utils", stage |-> 0]
                /\ last' = call
    /\ UNCHANGED <<environ, loaded, defaults, envAtLoad, sys_modules, modules,
                   convert_kernel, imp, returned>>

\* Mutant: the finder's construction imports the implementation module, to
\* validate the backend when it is installed.
install_backend_eager(import_path, backend_arg, trace_arg) ==
    /\ loaded
    /\ imp.pc = "idle"
    /\ inst.pc = "idle"
    /\ Len(meta_path) < MaxInstalls
    /\ LET backend == IF backend_arg = Default THEN defaults.backend ELSE backend_arg
           trace == IF trace_arg = DefaultVal THEN defaults.trace_file ELSE trace_arg
           f == Finder_init(import_path, backend, trace)
           call == [arg |-> backend_arg, outcome |-> "running", at |-> ""]
       IN  IF f.raised # ""
           THEN /\ last' = [call EXCEPT !.outcome = f.raised, !.at = "__init__"]
                /\ UNCHANGED <<meta_path, loads, inst, sys_modules, modules>>
           ELSE LET p == ResolveName(f.self.backend_modname, ThisPackage)
                IN  /\ meta_path' = Append(meta_path, f.self)
                    /\ loads' = Append(loads, 0)
                    /\ inst' = [pc |-> "conv_utils", stage |-> 0]
                    /\ last' = call
                    /\ IF p \in DOMAIN sys_modules
                       THEN UNCHANGED <<sys_modules, modules>>
                       ELSE /\ modules' = DictSet(modules, DiskId(p),
                                                  DiskModule(p, {"function"}))
                            /\ sys_modules' = DictSet(sys_modules, p, DiskId(p))
    /\ UNCHANGED <<environ, loaded, defaults, envAtLoad, convert_kernel, imp, returned>>

\* Mutant: the call drops the target path from sys.modules, so that the next
\* import of it goes through the new finder.
install_backend_evictsTarget(import_path, backend_arg, trace_arg) ==
    /\ loaded
    /\ imp.pc = "idle"
    /\ inst.pc = "idle"
    /\ Len(meta_path) < MaxInstalls
    /\ LET backend == IF backend_arg = Default THEN defaults.backend ELSE backend_arg
           trace == IF trace_arg = DefaultVal THEN defaults.trace_file ELSE trace_arg
           f == Finder_init(import_path, backend, trace)
           call == [arg |-> backend_arg, outcome |-> "running", at |-> ""]
       IN  IF f.raised # ""
           THEN /\ last' = [call EXCEPT !.outcome = f.raised, !.at = "__init__"]
                /\ UNCHANGED <<meta_path, loads, inst, sys_modules>>
           ELSE /\ meta_path' = Append(meta_path, f.self)
                /\ loads' = Append(loads, 0)
                /\ inst' = [pc |-> "conv_utils", stage |-> 0]
                /\ last' = call
                /\ sys_modules' = [q \in DOMAIN sys_modules \ {import_path} |->
                                     sys_modules[q]]
    /\ UNCHANGED <<environ, loaded, defaults, envAtLoad, modules,
                   convert_kernel, imp, returned>>

\* Mutant: convert_kernel is rebound first, before the finder is constructed.
install_backend_patchFirst(import_path, backend_arg, trace_arg) ==
    /\ loaded
    /\ imp.pc = "idle"
    /\ inst.pc = "idle"
    /\ Len(meta_path) < MaxInstalls
    /\ LET backend == IF backend_arg = Default THEN defaults.backend ELSE backend_arg
           trace == IF trace_arg = DefaultVal THEN defaults.trace_file ELSE trace_arg
           f == Finder_init(import_path, backend, trace)
           call == [arg |-> backend_arg, outcome |-> "running", at |-> ""]
       IN  IF f.raised # ""
           THEN /\ last' = [call EXCEPT !.outcome = f.raised, !.at = "__init__"]
                /\ UNCHANGED <<meta_path, loads, inst>>
           ELSE /\ meta_path' = Append(meta_path, f.self)
                /\ loads' = Append(loads, 0)
                /\ inst' = [pc |-> "conv_utils", stage |-> 0]
                /\ last' = call
    /\ convert_kernel' = "identity"
    /\ UNCHANGED <<environ, loaded, defaults, envAtLoad, sys_modules, modules,
                   imp, returned>>

\* install_backend, line 72: construct the finder and append it.
install_backend(import_path, backend_arg, trace_arg) ==
    /\ loaded
    /\ imp.pc = "idle"
    /\ inst.pc = "idle"
    /\ Len(meta_path) < MaxInstalls
    /\ LET backend == IF backend_arg = Default THEN defaults.backend ELSE backend_arg
           trace == IF trace_arg = DefaultVal THEN defaults.trace_file ELSE trace_arg
           f == Finder_init(import_path, backend, trace)
           call == [arg |-> backend_arg, outcome |-> "running", at |-> ""]
       IN  IF f.raised # ""
           THEN /\ last' = [call EXCEPT !.outcome = f.raised, !.at = "__init__"]
                /\ UNCHANGED <<meta_path, loads, inst>>
           ELSE /\ meta_path' = Append(meta_path, f.self)
                /\ loads' = Append(loads, 0)
                /\ inst' = [pc |-> "conv_utils", stage |-> 0]
                /\ last' = call
    /\ UNCHANGED <<environ, loaded, defaults, envAtLoad, sys_modules, modules,
                   convert_kernel, imp, returned>>

\* install_backend, line 75: from keras.utils import conv_utils imports the
\* package keras first, a top-level name.
install_import_keras ==
    /\ inst.pc = "conv_utils"
    /\ inst.stage = 0
    /\ imp.pc = "idle"
    /\ BeginImport(<<"keras">>, PyNone, "install")
    /\ UNCHANGED <<environ, loaded, defaults, envAtLoad, meta_path, loads,
                   sys_modules, modules, convert_kernel>>

\* install_backend, line 75, continued: the Keras modules it loads import
\* keras.backend (docstring, lines 20-23: Keras modules loaded after the
\* install use the patched keras.backend).  Keras modules loaded earlier are
\* not loaded again: then install_patch follows at once.
install_import_backend(pp) ==
    /\ inst.pc = "conv_utils"
    /\ inst.stage = 1
    /\ imp.pc = "idle"
    /\ BeginImport(KerasBackend, ListVal(pp), "install")
    /\ UNCHANGED <<environ, loaded, defaults, envAtLoad, meta_path, loads,
                   sys_modules, modules, convert_kernel>>

\* Mutant: convert_kernel is rebound for the Keras backends only.
install_patch_nonDefaultOnly ==
    /\ inst.pc = "conv_utils"
    /\ inst.stage >= 1
    /\ imp.pc = "idle"
    /\ convert_kernel' = IF meta_path[Len(meta_path)].backend_name # "plaidml"
                         THEN "identity" ELSE convert_kernel
    /\ inst' = NoInstall
    /\ last' = [last EXCEPT !.outcome = "ok"]
    /\ UNCHANGED <<environ, loaded, defaults, envAtLoad, meta_path, loads,
                   sys_modules, modules, imp, returned>>

\* install_backend, lines 75-76, once the imports of line 75 are through:
\* convert_kernel is rebound and install_backend returns.
install_patch ==
    /\ inst.pc = "conv_utils"
    /\ inst.stage >= 1
    /\ imp.pc = "idle"
    /\ convert_kernel' = "identity"
    /\ inst' = NoInstall
    /\ last' = [last EXCEPT !.outcome = "ok"]
    /\ UNCHANGED <<environ, loaded, defaults, envAtLoad, meta_path, loads,
                   sys_modules, modules, imp, returned>>

\* The program imports fullname.
import_module(fullname, path) ==
    /\ imp.pc = "idle"
    /\ inst.pc = "idle"
    /\ BeginImport(fullname, path, "user")
    /\ UNCHANGED <<environ, loaded, defaults, envAtLoad, meta_path, loads,
                   sys_modules, modules, convert_kernel>>

\* The host asks the next finder of sys.meta_path.
meta_path_find ==
    /\ imp.pc = "find"
    /\ imp.i <= Len(meta_path)
    /\ LET r == find_module(meta_path[imp.i], imp.fullname, imp.path)
       IN  IF r.raised # ""
           THEN /\ ImportRaises(imp.fullname, r.raised, "find_module", imp.caller)
                /\ UNCHANGED meta_path
           ELSE IF r.ret = "None"
           THEN /\ imp' = [imp EXCEPT !.i = @ + 1]
                /\ UNCHANGED <<meta_path, returned, last, inst>>
           ELSE /\ meta_path' = [meta_path EXCEPT ![imp.i] = r.self]
                /\ imp' = [imp EXCEPT !.pc = "load"]
                /\ UNCHANGED <<returned, last, inst>>
    /\ UNCHANGED <<environ, loaded, defaults, envAtLoad, loads, sys_modules,
                   modules, convert_kernel>>

\* No finder claimed the name: the host's normal resolution finds the module
\* on disk and registers it, or finds none.
default_import ==
    /\ imp.pc = "find"
    /\ imp.i > Len(meta_path)
    /\ \/ /\ ImportRaises(imp.fullname, "ImportError", "import", imp.caller)
          /\ UNCHANGED <<sys_modules, modules>>
       \/ \E S \in DiskNameSets(imp.fullname) :
            /\ modules' = DictSet(modules, DiskId(imp.fullname),
                                   DiskModule(imp.fullname, S))
            /\ sys_modules' = DictSet(sys_modules, imp.fullname, DiskId(imp.fullname))
            /\ ImportReturns(imp.fullname, DiskId(imp.fullname), imp.caller)
    /\ UNCHANGED <<environ, loaded, defaults, envAtLoad, meta_path, loads,
                   convert_kernel>>

\* Mutant: sys.modules gets a second new module object, not the one that
\* load_module goes on to populate and return.
load_module_register_registersCopy ==
    /\ imp.pc = "load"
    /\ LET self == meta_path[imp.i]
           m == SyntheticId(imp.i, loads[imp.i] + 1)
           m2 == SyntheticId(imp.i, loads[imp.i] + 2)
           new == NewModule(imp.i, self.repname, self.keras_path)
       IN  /\ modules' = DictSet(DictSet(modules, m, new), m2, new)
           /\ sys_modules' = DictSet(sys_modules, imp.fullname, m2)
           /\ imp' = [imp EXCEPT !.pc = "impl", !.mod = m]
    /\ loads' = [loads EXCEPT ![imp.i] = @ + 1]
    /\ UNCHANGED <<environ, loaded, defaults, envAtLoad, meta_path, convert_kernel,
                   inst, returned, last>>

\* Mutant: line 100 is missing, the module is not put into sys.modules.
load_module_register_noRegister ==
    /\ imp.pc = "load"
    /\ LET self == meta_path[imp.i]
           m == SyntheticId(imp.i, loads[imp.i] + 1)
       IN  /\ modules' = DictSet(modules, m,
                                  NewModule(imp.i, self.repname, self.keras_path))
           /\ sys_modules' = sys_modules
           /\ imp' = [imp EXCEPT !.pc = "impl", !.mod = m]
    /\ loads' = [loads EXCEPT ![imp.i] = @ + 1]
    /\ UNCHANGED <<environ, loaded, defaults, envAtLoad, meta_path, convert_kernel,
                   inst, returned, last>>

\* load_module, lines 98-100: the synthetic module is created, given its
\* __path__ and registered in sys.modules.
load_module_register ==
    /\ imp.pc = "load"
    /\ LET self == meta_path[imp.i]
           m == SyntheticId(imp.i, loads[imp.i] + 1)
       IN  /\ modules' = DictSet(modules, m,
                                  NewModule(imp.i, self.repname, self.keras_path))
           /\ sys_modules' = DictSet(sys_modules, imp.fullname, m)
           /\ imp' = [imp EXCEPT !.pc = "impl", !.mod = m]
    /\ loads' = [loads EXCEPT ![imp.i] = @ + 1]
    /\ UNCHANGED <<environ, loaded, defaults, envAtLoad, meta_path, convert_kernel,
                   inst, returned, last>>

\* _add_imports (lines 110-114) on module m: the outcomes of importing
\* import_modname (cached, loaded from disk, or not found) and of copying
\* its namespace into m.  No finder is asked: Targets holds none of ImplPaths.
_add_imports(mods, sysm, m, import_modname) ==
    LET p == ResolveName(import_modname, ThisPackage)
    IN  IF p \in DOMAIN sysm
        THEN {[raised |-> "",
               modules |-> [mods EXCEPT ![m].ns = CopyAttrs(@, mods[sysm[p]].ns)],
               sys_modules |-> sysm]}
        ELSE {[raised |-> "ImportError", modules |-> mods, sys_modules |-> sysm]}
             \cup
             {[raised |-> "",
               modules |-> DictSet([mods EXCEPT ![m].ns = CopyAttrs(@, DiskNamespace(p, S))],
                                   DiskId(p), DiskModule(p, S)),
               sys_modules |-> DictSet(sysm, p, DiskId(p))] : S \in DiskNameSets(p)}

\* Mutant: line 102 is live: with a trace destination the module's function
\* factory is replaced by a wrapper around it.
load_module_impl_intercepts ==
    /\ imp.pc = "impl"
    /\ LET self == meta_path[imp.i]
           wrap(ns) == IF self.trace_file.kind # "None" /\ "function" \in DOMAIN ns
                       THEN SetAttr(ns, "function",
                                    [kind |-> "wrapper", of |-> ns["function"]])
                       ELSE ns
       IN  \E o \in _add_imports(modules, sys_modules, imp.mod, self.backend_modname) :
             IF o.raised # ""
             THEN /\ ImportRaises(imp.fullname, o.raised, "load_module", imp.caller)
                  /\ UNCHANGED <<modules, sys_modules>>
             ELSE /\ sys_modules' = o.sys_modules
                  /\ IF self.backend_name # "plaidml"
                     THEN /\ modules' = [o.modules EXCEPT ![imp.mod].ns = wrap(@)]
                          /\ imp' = [imp EXCEPT !.pc = "common"]
                          /\ UNCHANGED <<returned, last, inst>>
                     ELSE /\ modules' = [o.modules EXCEPT ![imp.mod].ns = wrap(@),
                                                          ![imp.mod].done = TRUE]
                          /\ ImportReturns(imp.fullname, imp.mod, imp.caller)
    /\ UNCHANGED <<environ, loaded, defaults, envAtLoad, meta_path, loads,
                   convert_kernel>>

\* Mutant: when the implementation does not import, load_module takes the
\* module out of sys.modules again before the error leaves it.
load_module_impl_rollback ==
    /\ imp.pc = "impl"
    /\ LET self == meta_path[imp.i]
       IN  \E o \in _add_imports(modules, sys_modules, imp.mod, self.backend_modname) :
             IF o.raised # ""
             THEN /\ ImportRaises(imp.fullname, o.raised, "load_module", imp.caller)
                  /\ sys_modules' = [q \in DOMAIN sys_modules \ {imp.fullname} |->
                                       sys_modules[q]]
                  /\ UNCHANGED modules
             ELSE /\ sys_modules' = o.sys_modules
                  /\ IF self.backend_name # "plaidml"
                     THEN /\ modules' = o.modules
                          /\ imp' = [imp EXCEPT !.pc = "common"]
                          /\ UNCHANGED <<returned, last, inst>>
                     ELSE /\ modules' = [o.modules EXCEPT ![imp.mod].done = TRUE]
                          /\ ImportReturns(imp.fullname, imp.mod, imp.caller)
    /\ UNCHANGED <<environ, loaded, defaults, envAtLoad, meta_path, loads,
                   convert_kernel>>

\* load_module, line 101, and for the default backend the return of line 108.
load_module_impl ==
    /\ imp.pc = "impl"
    /\ LET self == meta_path[imp.i]
       IN  \E o \in _add_imports(modules, sys_modules, imp.mod, self.backend_modname) :
             IF o.raised # ""
             THEN /\ ImportRaises(imp.fullname, o.raised, "load_module", imp.caller)
                  /\ UNCHANGED <<modules, sys_modules>>
             ELSE /\ sys_modules' = o.sys_modules
                  /\ IF self.backend_name # "plaidml"
                     THEN /\ modules' = o.modules
                          /\ imp' = [imp EXCEPT !.pc = "common"]
                          /\ UNCHANGED <<returned, last, inst>>
                     ELSE /\ modules' = [o.modules EXCEPT ![imp.mod].done = TRUE]
                          /\ ImportReturns(imp.fullname, imp.mod, imp.caller)
    /\ UNCHANGED <<environ, loaded, defaults, envAtLoad, meta_path, loads,
                   convert_kernel>>

\* Mutant: the implementation is injected once more after
\* keras.backend.common, so that its bindings win.
load_module_common_implLast ==
    /\ imp.pc = "common"
    /\ \E o \in _add_imports(modules, sys_modules, imp.mod, KerasBackendCommon) :
         IF o.raised # ""
         THEN /\ ImportRaises(imp.fullname, o.raised, "load_module", imp.caller)
              /\ UNCHANGED <<modules, sys_modules>>
         ELSE /\ sys_modules' = o.sys_modules
              /\ modules' = [o.modules EXCEPT
                               ![imp.mod].ns =
                                   SetAttr(CopyAttrs(@, modules[sys_modules[
                                               ResolveName(meta_path[imp.i].backend_modname,
                                                           ThisPackage)]].ns),
                                           "backend", BackendLambda(imp.i)),
                               ![imp.mod].done = TRUE]
              /\ ImportReturns(imp.fullname, imp.mod, imp.caller)
    /\ UNCHANGED <<environ, loaded, defaults, envAtLoad, meta_path, loads,
                   convert_kernel>>

\* Mutant: the accessor is bound before keras.backend.common is injected.
load_module_common_bindFirst ==
    /\ imp.pc = "common"
    /\ \E o \in _add_imports([modules EXCEPT ![imp.mod].ns =
                                  SetAttr(@, "backend", BackendLambda(imp.i))],
                              sys_modules, imp.mod, KerasBackendCommon) :
         IF o.raised # ""
         THEN /\ ImportRaises(imp.fullname, o.raised, "load_module", imp.caller)
              /\ UNCHANGED <<modules, sys_modules>>
         ELSE /\ sys_modules' = o.sys_modules
              /\ modules' = [o.modules EXCEPT ![imp.mod].done = TRUE]
              /\ ImportReturns(imp.fullname, imp.mod, imp.caller)
    /\ UNCHANGED <<environ, loaded, defaults, envAtLoad, meta_path, loads,
                   convert_kernel>>

\* load_module, lines 106-108, for a backend other than 'plaidml'.
load_module_common ==
    /\ imp.pc = "common"
    /\ \E o \in _add_imports(modules, sys_modules, imp.mod, KerasBackendCommon) :
         IF o.raised # ""
         THEN /\ ImportRaises(imp.fullname, o.raised, "load_module", imp.caller)
              /\ UNCHANGED <<modules, sys_modules>>
         ELSE /\ sys_modules' = o.sys_modules
              /\ modules' = [o.modules EXCEPT
                               ![imp.mod].ns = SetAttr(@, "backend", BackendLambda(imp.i)),
                               ![imp.mod].done = TRUE]
              /\ ImportReturns(imp.fullname, imp.mod, imp.caller)
    /\ UNCHANGED <<environ, loaded, defaults, envAtLoad, meta_path, loads,
                   convert_kernel>>

\* While line 111 imports a module, that module's code imports the target
\* path: the host finds it in sys.modules.
reentrant_import ==
    /\ imp.pc \in {"impl", "common"}
    /\ imp.fullname \in DOMAIN sys_modules
    /\ returned' = returned \cup {<<imp.fullname, sys_modules[imp.fullname]>>}
    /\ UNCHANGED <<environ, loaded, defaults, envAtLoad, meta_path, loads,
                   sys_modules, modules, convert_kernel, inst, imp, last>>

Next ==
    \/ LoadPlaidmlKeras
    \/ \E v \in BackendEnvValues : SetEnv(BackendVar, v)
    \/ \E p \in Targets, b \in BackendArgs, t \in TraceArgs : install_backend(p, b, t)
    \/ install_import_keras
    \/ \E pp \in ParentPaths : install_import_backend(pp)
    \/ install_patch
    \/ \E f \in RequestPaths : \E path \in PathArgs(f) : import_module(f, path)
    \/ meta_path_find
    \/ default_import
    \/ load_module_register
    \/ load_module_impl
    \/ load_module_common
    \/ reentrant_import

Spec == Init /\ [][Next]_vars

(***************************************************************************)
(* Definitions the properties share                                        *)
(***************************************************************************)

\* The backend name an install_backend call hands to the finder.
ResolvedBackend(arg) == IF arg = Default THEN defaults.backend ELSE arg

\* This step is a call of install_backend (its line 72).
InstallCalled ==
    /\ inst.pc = "idle"
    /\ imp.pc = "idle"
    /\ last' # last \/ meta_path' # meta_path

\* The absolute path of a finder's implementation module, and the namespaces
\* the hook copies from, once they are imported.
ImplPath(f) == ResolveName(f.backend_modname, ThisPackage)
ImplNs(f) == modules[sys_modules[ImplPath(f)]].ns
CommonNs == modules[sys_modules[KerasBackendCommon]].ns

\* The synthetic modules whose load_module has returned.
DoneSynthetic == {id \in DOMAIN modules : modules[id].loader # 0 /\ modules[id].done}

\* The names a new module object binds by itself (line 98) and by line 99.
OwnNames == {"__name__", "__path__"}

(***************************************************************************)
(* C1                                                                      *)
(***************************************************************************)

\* C1: constructing the finder for a backend name that is not a key of
\* _BACKENDS raises, and a call of install_backend with such a name ends with
\* the RuntimeError of the finder's __init__ and leaves sys.meta_path exactly
\* as it was: no import hook is registered.
C1_UnknownBackendRegistersNothing ==
    [][/\ \A p \in Targets, t \in TraceArgs :
            Finder_init(p, "tensorflow", t).raised = "RuntimeError"
       /\ (InstallCalled /\ ResolvedBackend(last'.arg) \notin DOMAIN _BACKENDS)
            => /\ last'.outcome = "RuntimeError"
               /\ last'.at = "__init__"
               /\ meta_path' = meta_path
               /\ inst' = inst]_vars

\* A failed install_backend('tensorflow') after a successful install: the
\* chain still holds the one finder.
C1_Witness ==
    /\ last.arg = "tensorflow"
    /\ last.outcome = "RuntimeError"
    /\ Len(meta_path) = 1

(***************************************************************************)
(* C2                                                                      *)
(***************************************************************************)

C3_SameModuleEveryTime ==
    [][/\ \A r \in returned' :
            r[1] \in DOMAIN sys_modules' /\ sys_modules'[r[1]] = r[2]
       /\ \A r1 \in returned', r2 \in returned' : r1[1] = r2[1] => r1[2] = r2[2]
       /\ \A i \in 1..Len(loads') : loads'[i] <= 1
       /\ imp'.pc \in {"find", "load"} => imp'.fullname \notin DOMAIN sys_modules'
      ]_vars

\* The second install_backend call's own import of keras.backend has returned
\* the module the first finder built, and no finder was asked again.
C3_Witness ==
    /\ Len(meta_path) = 2
    /\ loads = <<1, 0>>
    /\ inst.pc = "conv_utils"
    /\ inst.stage = 2
    /\ SyntheticId(1, 1) \in DoneSynthetic
    /\ <<KerasBackend, SyntheticId(1, 1)>> \in returned

(***************************************************************************)
(* C4                                                                      *)
(***************************************************************************)

\* C4: asked for a name other than its own target path, a finder declines:
\* the host goes on to the next finder, and the finders (their stored search
\* locations included), sys.modules and the module objects are unchanged; a
\* synthetic module is registered under its finder's target path only.
C4_OtherPathsIgnored ==
    [][/\ (/\ imp.pc = "find"
           /\ imp.i <= Len(meta_path)
           /\ imp.fullname # meta_path[imp.i].repname)
            => /\ imp' = [imp EXCEPT !.i = @ + 1]
               /\ meta_path' = meta_path
               /\ sys_modules' = sys_modules
               /\ modules' = modules
               /\ loads' = loads
       /\ \A p \in DOMAIN sys_modules' :
            modules'[sys_modules'[p]].loader # 0
                => meta_path'[modules'[sys_modules'[p]].loader].repname = p
      ]_vars

\* Both finders, one per target, have declined keras.backend.common.
C4_Witness ==
    /\ imp.pc = "find"
    /\ imp.fullname = KerasBackendCommon
    /\ imp.i = 3
    /\ Len(meta_path) = 2
    /\ meta_path[1].repname = KerasBackend
    /\ meta_path[2].repname = <<"keras">>

(***************************************************************************)
(* C5                                                                      *)
(***************************************************************************)

\* C5: whatever name and whatever path argument (a list of locations or
\* None) the host passes, find_module claims the request, so that the host
\* goes on to load_module of this finder, exactly when the name equals the
\* finder's target path.
C5_MatchIffExactPath ==
    [][(imp.pc = "find" /\ imp.i <= Len(meta_path))
         => ((imp'.pc = "load" /\ imp'.i = imp.i)
               <=> imp.fullname = meta_path[imp.i].repname)]_vars

(***************************************************************************)
(* C6                                                                      *)
(***************************************************************************)

\* C6: in a synthetic module whose load_module has returned, for a backend
\* other than 'plaidml' the name backend is bound to the accessor and calling
\* it returns the finder's backend name, whatever the implementation and
\* keras.backend.common bind; for 'plaidml' no accessor is bound and every
\* name is the module's own or bound as the implementation binds it, none
\* coming from keras.backend.common.
C6_BackendAccessor ==
    \A id \in DoneSynthetic :
        LET f == meta_path[modules[id].loader]
            ns == modules[id].ns
        IN  IF f.backend_name # "plaidml"
            THEN /\ "backend" \in DOMAIN ns
                 /\ ns["backend"].kind = "lambda"
                 /\ Call0(ns["backend"]) = StrVal(f.backend_name)
            ELSE /\ \A n \in DOMAIN ns : ns[n].kind # "lambda"
                 /\ DOMAIN ns \subseteq OwnNames \cup DOMAIN ImplNs(f)
                 /\ \A n \in DOMAIN ImplNs(f) : ns[n] = ImplNs(f)[n]

\* A populated theano module where both theano_backend and common bind the
\* name backend themselves.
C6_Witness ==
    \E id \in DoneSynthetic :
        LET f == meta_path[modules[id].loader]
        IN  /\ f.backend_name = "theano"
            /\ "backend" \in DOMAIN ImplNs(f)
            /\ "backend" \in DOMAIN CommonNs

(***************************************************************************)
(* C7                                                                      *)
(***************************************************************************)

\* C7: install_backend appends: a successful call leaves the earlier finders
\* where they were and puts the new one, built for the backend of the call,
\* last.  Of two finders for the same target path the later one never has
\* load_module called and no module is built by it: the module registered
\* under the path is built by the first finder for the path.
C7_FirstFinderFires ==
    [][/\ Len(meta_path') >= Len(meta_path)
       /\ \A k \in 1..Len(meta_path) :
            [meta_path'[k] EXCEPT !.keras_path = PyNone]
                = [meta_path[k] EXCEPT !.keras_path = PyNone]
       /\ (InstallCalled /\ ResolvedBackend(last'.arg) \in DOMAIN _BACKENDS)
            => /\ Len(meta_path') = Len(meta_path) + 1
               /\ meta_path'[Len(meta_path')].backend_name = ResolvedBackend(last'.arg)
       /\ \A i \in 1..Len(meta_path'), j \in 1..Len(meta_path') :
            (i < j /\ meta_path'[i].repname = meta_path'[j].repname)
                => /\ loads'[j] = 0
                   /\ \A id \in DOMAIN modules' : modules'[id].loader # j
      ]_vars

\* Two installs for keras.backend, theano first and plaidml second, both
\* returned; the module is the first finder's and reports theano.
C7_Witness ==
    /\ Len(meta_path) = 2
    /\ meta_path[1].repname = KerasBackend
    /\ meta_path[2].repname = KerasBackend
    /\ meta_path[1].backend_name = "theano"
    /\ meta_path[2].backend_name = "plaidml"
    /\ last.outcome = "ok"
    /\ loads = <<1, 0>>
    /\ sys_modules[KerasBackend] = SyntheticId(1, 1)
    /\ SyntheticId(1, 1) \in DoneSynthetic
    /\ Call0(modules[SyntheticId(1, 1)].ns["backend"]) = StrVal("theano")

(***************************************************************************)
(* C8                                                                      *)
(***************************************************************************)

\* convert_kernel returns its argument, for every kernel.
ConvertKernelIsIdentity == \A x \in Kernels : CallConvertKernel(x) = x

\* C8: when a call of install_backend has returned, convert_kernel returns
\* its argument unchanged, and from then on it always does, through later
\* calls of install_backend too.
C8_ConvertKernelIdentity ==
    [][/\ last'.outcome = "ok" => ConvertKernelIsIdentity'
       /\ ConvertKernelIsIdentity => ConvertKernelIsIdentity'
      ]_vars

\* Two calls, one per backend, have returned.
C8_Witness ==
    /\ Len(meta_path) = 2
    /\ meta_path[1].backend_name = "plaidml"
    /\ meta_path[2].backend_name = "theano"
    /\ last.outcome = "ok"
    /\ ConvertKernelIsIdentity

(***************************************************************************)
(* C9                                                                      *)
(***************************************************************************)

\* C9 as stated: a call of install_backend without a backend argument uses
\* the backend the environment variable names at the time of the call.
C9_Original ==
    [][(InstallCalled /\ last'.arg = Default /\ Len(meta_path') > Len(meta_path))
         => meta_path'[Len(meta_path')].backend_name
                = getenv(BackendVar, StrVal("plaidml")).val]_vars

\* C9 (amended): the two variables are read once, when plaidml.keras is
\* loaded, and the values are kept: a call of install_backend without a
\* backend argument uses the backend the variable named when the module was
\* loaded (or 'plaidml' when it was unset then), and a finder's trace
\* destination is the one passed or the variable's value at load time.
C9_DefaultsReadAtLoad ==
    [][/\ loaded => (defaults' = defaults /\ envAtLoad' = envAtLoad)
       /\ (InstallCalled /\ last'.arg = Default)
            => /\ Len(meta_path') = Len(meta_path) + 1
               /\ meta_path'[Len(meta_path')].backend_name
                    = getenv_in(envAtLoad, BackendVar, StrVal("plaidml")).val
       /\ \A k \in 1..Len(meta_path') :
            meta_path'[k].trace_file
                \in {FileVal, getenv_in(envAtLoad', TraceVar, PyNone)}
      ]_vars

\* The variable was unset at load and names theano now; the call without a
\* backend argument has installed plaidml.
C9_Witness ==
    /\ loaded
    /\ BackendVar \notin DOMAIN envAtLoad
    /\ BackendVar \in DOMAIN environ
    /\ environ[BackendVar] = "theano"
    /\ last.arg = Default
    /\ last.outcome = "ok"
    /\ Len(meta_path) = 1
    /\ meta_path[1].backend_name = "plaidml"

(***************************************************************************)
(* C10                                                                     *)
(***************************************************************************)

\* C10 as stated: an implementation (or common-definitions) module that does
\* not resolve never makes a call of install_backend fail.
C10_Original == ~(last.outcome = "ImportError" /\ last.at = "load_module")

\* C10 (amended): a call of install_backend for a registered backend
\* registers the finder without importing anything, whatever the disk holds;
\* a backend implementation module is imported only by load_module, while it
\* populates the synthetic module; and when that import fails in the import
\* of keras.backend that install_backend itself makes (line 75), the call
\* ends with the ImportError, the finder stays registered, the unpopulated
\* module stays in sys.modules and convert_kernel is not rebound.
C10_NoEagerValidation ==
    [][/\ (InstallCalled /\ ResolvedBackend(last'.arg) \in DOMAIN _BACKENDS)
            => /\ Len(meta_path') = Len(meta_path) + 1
               /\ last'.outcome = "running"
               /\ modules' = modules
               /\ sys_modules' = sys_modules
       /\ \A b \in DOMAIN _BACKENDS :
            LET id == DiskId(ResolveName(_BACKENDS[b], ThisPackage))
            IN  (id \in DOMAIN modules' /\ id \notin DOMAIN modules) => imp.pc = "impl"
       /\ (last'.at = "load_module" /\ last # last')
            => /\ imp.pc \in {"impl", "common"}
               /\ imp.caller = "install"
               /\ last'.outcome = "ImportError"
               /\ inst'.pc = "idle"
               /\ meta_path' = meta_path
               /\ sys_modules'[imp.fullname] = imp.mod
               /\ ~modules'[imp.mod].done
               /\ convert_kernel' = convert_kernel
      ]_vars

\* The first install_backend call has ended with the ImportError of
\* load_module: the finder is registered, the unpopulated module is in
\* sys.modules and convert_kernel is the original.
C10_Witness ==
    /\ last.outcome = "ImportError"
    /\ last.at = "load_module"
    /\ Len(meta_path) = 1
    /\ inst.pc = "idle"
    /\ KerasBackend \in DOMAIN sys_modules
    /\ sys_modules[KerasBackend] = SyntheticId(1, 1)
    /\ ~modules[SyntheticId(1, 1)].done
    /\ convert_kernel = "original"

(***************************************************************************)
(* C11                                                                     *)
(***************************************************************************)

\* The synthetic module objects.
Synthetic(mods) == {id \in DOMAIN mods : mods[id].loader # 0}

\* C11: a target path that sys.modules holds stays bound to the same module
\* object through every later step, calls of install_backend included: the
\* imports of the path that return, return that object, no load_module is
\* entered for the path, no finder for the path loads anything, and the
\* object's namespace is not changed (a module whose load_module is still
\* running excepted).
C11_PreexistingModuleKept ==
    [][\A p \in Targets :
         p \in DOMAIN sys_modules
            => /\ p \in DOMAIN sys_modules'
               /\ sys_modules'[p] = sys_modules[p]
               /\ imp.mod # sys_modules[p]
                    => modules'[sys_modules[p]] = modules[sys_modules[p]]
               /\ imp'.pc = "load" => imp'.fullname # p
               /\ \A r \in returned' \ returned : r[1] = p => r[2] = sys_modules[p]
               /\ \A i \in 1..Len(meta_path) :
                    meta_path[i].repname = p => loads'[i] = loads[i]
      ]_vars

\* keras.backend was imported from disk before the install for keras.backend:
\* the import of it that install_backend makes has returned the module from
\* disk, and the finder has loaded nothing.
C11_Witness ==
    /\ Len(meta_path) = 1
    /\ meta_path[1].repname = KerasBackend
    /\ loads = <<0>>
    /\ inst.pc = "conv_utils"
    /\ inst.stage = 2
    /\ KerasBackend \in DOMAIN sys_modules
    /\ sys_modules[KerasBackend] = DiskId(KerasBackend)
    /\ <<KerasBackend, DiskId(KerasBackend)>> \in returned

(***************************************************************************)
(* C12                                                                     *)
(***************************************************************************)

\* C12: while load_module populates a module, sys.modules holds that module
\* under the requested path; when the population begins the module binds
\* nothing but its own names; and every synthetic module there is, is the
\* one registered under its finder's path.
C12_RegisteredBeforePopulated ==
    /\ imp.pc \in {"impl", "common"}
         => /\ imp.fullname \in DOMAIN sys_modules
            /\ sys_modules[imp.fullname] = imp.mod
    /\ imp.pc = "impl" => DOMAIN modules[imp.mod].ns = OwnNames
    /\ \A id \in Synthetic(modules) :
         LET p == meta_path[modules[id].loader].repname
         IN  p \in DOMAIN sys_modules /\ sys_modules[p] = id

\* The module is registered and nothing is injected yet.
C12_Witness ==
    /\ imp.pc = "impl"
    /\ imp.fullname = KerasBackend
    /\ sys_modules[KerasBackend] = imp.mod
    /\ DOMAIN modules[imp.mod].ns = OwnNames
    /\ ImplPath(meta_path[imp.i]) \notin DOMAIN sys_modules

(***************************************************************************)
(* C13                                                                     *)
(***************************************************************************)

\* C13: while load_module populates a module, an import of the target path
\* returns the module being populated, which is the object load_module
\* returns in the end; no finder is asked, no load_module is entered and no
\* further synthetic module is made; the module a re-entrant import returns
\* is not yet complete.
C13_ReentrantImport ==
    [][imp.pc \in {"impl", "common"}
         => /\ \A r \in returned' \ returned : r = <<imp.fullname, imp.mod>>
            /\ loads' = loads
            /\ Synthetic(modules') = Synthetic(modules)
            /\ imp'.pc \notin {"find", "load"}
            /\ (imp' = imp /\ returned' # returned) => ~modules[imp.mod].done
      ]_vars

\* The import of keras.backend made while keras.backend.common is imported
\* has returned the module that load_module is still populating.
C13_Witness ==
    /\ imp.pc = "common"
    /\ imp.fullname = KerasBackend
    /\ <<KerasBackend, imp.mod>> \in returned
    /\ ~modules[imp.mod].done

(***************************************************************************)
(* C14                                                                     *)
(***************************************************************************)

\* os.path.join of every element of the parent path pp with the last
\* segment of fullname.
JoinedLocations(pp, fullname) ==
    ListVal([k \in 1..Len(pp) |-> path_join(pp[k], Tail_rsplit(fullname))])

\* C14: the search locations a finder holds after a match are the parent's
\* locations, each joined with the last segment of the matched name, and the
\* __path__ of a synthetic module whose load_module has returned is that
\* list, whatever the injected namespaces bind.
C14_SearchLocations ==
    \A id \in DoneSynthetic :
        LET f == meta_path[modules[id].loader]
        IN  /\ f.keras_path \in {JoinedLocations(pp, f.repname) : pp \in ParentPaths}
            /\ modules[id].ns["__path__"] = f.keras_path

(***************************************************************************)
(* C15                                                                     *)
(***************************************************************************)

\* C15: while load_module populates a module, copying the namespace of any
\* imported module into it, as _add_imports does, keeps every name of the
\* module bound, binds every name of the source to the source's object, and
\* done again changes nothing; and once load_module has injected the
\* implementation, a second _add_imports of the implementation into the
\* module has one outcome, which changes nothing.
C15_InjectAddsOrRebinds ==
    /\ imp.pc \in {"impl", "common"}
         => \A s \in DOMAIN modules \ Synthetic(modules) :
              LET tn == modules[imp.mod].ns
                  sn == modules[s].ns
                  r == CopyAttrs(tn, sn)
              IN  /\ DOMAIN tn \subseteq DOMAIN r
                  /\ \A n \in DOMAIN sn : r[n] = sn[n]
                  /\ CopyAttrs(r, sn) = r
    /\ imp.pc = "common"
         => \A o \in _add_imports(modules, sys_modules, imp.mod,
                                  meta_path[imp.i].backend_modname) :
              /\ o.raised = ""
              /\ o.modules = modules
              /\ o.sys_modules = sys_modules

\* The implementation is injected: the module's __name__ is re-bound to the
\* implementation's, its __path__ is kept and function is added.
C15_Witness ==
    /\ imp.pc = "common"
    /\ LET f == meta_path[imp.i]
           ns == modules[imp.mod].ns
       IN  /\ ns["__name__"] = StrVal(ImplPath(f))
           /\ ns["__path__"] = f.keras_path
           /\ ns["function"] = ObjVal(ImplPath(f), "function")

(***************************************************************************)
(* C16                                                                     *)
(***************************************************************************)

\* sys.modules holds, under path p, a synthetic module whose load_module has
\* not returned.
Incomplete(p) ==
    /\ p \in DOMAIN sys_modules
    /\ modules[sys_modules[p]].loader # 0
    /\ ~modules[sys_modules[p]].done

\* C16: when the population of a module fails, the import ends with the
\* error (an install_backend making the import ends with it) and the module
\* stays in sys.modules under the requested path as it is; and while no
\* import runs, an incomplete module stays registered and unchanged, every
\* import of its path returns it, and no finder is asked for the path and
\* no load_module runs.
C16_NoRollback ==
    [][/\ (imp.pc \in {"impl", "common"} /\ imp'.pc = "idle" /\ ~modules'[imp.mod].done)
            => /\ imp.fullname \in DOMAIN sys_modules'
               /\ sys_modules'[imp.fullname] = imp.mod
               /\ modules'[imp.mod] = modules[imp.mod]
               /\ imp.caller = "install"
                    => (last'.outcome = "ImportError" /\ inst'.pc = "idle")
       /\ \A p \in Targets :
            (imp.pc = "idle" /\ Incomplete(p))
                => /\ p \in DOMAIN sys_modules'
                   /\ sys_modules'[p] = sys_modules[p]
                   /\ modules'[sys_modules[p]] = modules[sys_modules[p]]
                   /\ \A r \in returned' \ returned : r[1] = p => r[2] = sys_modules[p]
                   /\ imp'.pc # "idle" => imp'.fullname # p
                   /\ \A i \in 1..Len(loads) : loads'[i] = loads[i]
      ]_vars

\* The first finder's load_module failed; the import of keras.backend that
\* the second install_backend call makes has returned the incomplete module.
C16_Witness ==
    /\ Len(meta_path) = 2
    /\ loads = <<1, 0>>
    /\ inst.pc = "conv_utils"
    /\ inst.stage = 2
    /\ imp.pc = "idle"
    /\ Incomplete(KerasBackend)
    /\ sys_modules[KerasBackend] = SyntheticId(1, 1)
    /\ <<KerasBackend, SyntheticId(1, 1)>> \in returned

(***************************************************************************)
(* C17                                                                     *)
(***************************************************************************)

\* The trace destinations a finder may hold: none, a path, an open file.
TraceValues == {PyNone, FileVal} \cup {StrVal(v) : v \in TraceEnvValues}

\* A finder without its trace destination.
EraseTrace(f) == [f EXCEPT !.trace_file = PyNone]

C18_Original ==
    \A id \in DoneSynthetic :
        LET f == meta_path[modules[id].loader]
            ns == modules[id].ns
        IN  f.backend_name # "plaidml"
              => \A n \in DOMAIN ImplNs(f) \cup DOMAIN CommonNs :
                   ns[n] = IF n \in DOMAIN CommonNs THEN CommonNs[n] ELSE ImplNs(f)[n]

\* C18 (amended): the same for every name but backend, which holds the
\* accessor bound last (line 107).
C18_LaterInjectionWins ==
    \A id \in DoneSynthetic :
        LET f == meta_path[modules[id].loader]
            ns == modules[id].ns
        IN  f.backend_name # "plaidml"
              => /\ \A n \in (DOMAIN ImplNs(f) \cup DOMAIN CommonNs) \ {"backend"} :
                      ns[n] = IF n \in DOMAIN CommonNs THEN CommonNs[n]
                                                       ELSE ImplNs(f)[n]
                 /\ ns["backend"] = BackendLambda(modules[id].loader)

\* theano_backend and common both bind function, and theano_backend alone
\* binds __path__: the module holds common's function.
C18_Witness ==
    \E id \in DoneSynthetic :
        LET f == meta_path[modules[id].loader]
        IN  /\ f.backend_name = "theano"
            /\ "function" \in DOMAIN CommonNs
            /\ "__path__" \in DOMAIN ImplNs(f)
            /\ modules[id].ns["function"] = ObjVal(KerasBackendCommon, "function")
            /\ modules[id].ns["__path__"] = ImplNs(f)["__path__"]

(***************************************************************************)
(* C19                                                                     *)
(***************************************************************************)

\* C19: a call of install_backend that ends with the RuntimeError of the
\* unknown backend leaves convert_kernel, sys.modules and the module objects
\* as they were (and sys.meta_path, C1).
C19_FailedInstallChangesNothing ==
    [][(InstallCalled /\ last'.outcome = "RuntimeError")
         => /\ convert_kernel' = convert_kernel
            /\ \A x \in Kernels : CallConvertKernel(x)' = CallConvertKernel(x)
            /\ sys_modules' = sys_modules
            /\ modules' = modules
            /\ meta_path' = meta_path
      ]_vars

\* The first call of install_backend failed: convert_kernel still flips the
\* kernel and nothing is registered.
C19_Witness ==
    /\ last.outcome = "RuntimeError"
    /\ last.arg = "tensorflow"
    /\ Len(meta_path) = 0
    /\ \A x \in Kernels : Len(x) > 1 => CallConvertKernel(x) # x

====
